---- MODULE Spec2Model ----
(***************************************************************************)
(* Model of the UDP client transport of hickory-dns                        *)
(* (crates/proto/src/udp/udp_client_stream.rs).                            *)
(*                                                                         *)
(* One UdpClientStream issues sends.  Every accepted send_message call     *)
(* returns a response future which binds its own socket, sends the         *)
(* serialized request once and then loops over recv_from, filtering every  *)
(* datagram, until one passes, an I/O error occurs or the timeout fires.   *)
(* The caller keeps the futures of its sends in slots: a slot holds one    *)
(* future from the send_message call that created it until the caller has  *)
(* taken its result.  The stream can also be polled as a Stream.           *)
(*                                                                         *)
(* The second part models the object-safe AuthorityObject of the server    *)
(* (crates/server/src/authority/authority_object.rs): the operations the   *)
(* blanket impl forwards to a backend Authority, and the default methods   *)
(* ns, soa and soa_secure.  What the backend answers to a call is an input *)
(* of the call.                                                            *)
(*                                                                         *)
(* Further parts, each with its own variable and specification: a          *)
(* LookupObject and the calls made on it, the constructors of the stream   *)
(* and its connect future, the seeded generator of no_std builds           *)
(* (crates/proto/src/lib.rs), the loop body of a send taken one filter at  *)
(* a time, and the receive buffer of a send.                               *)
(***************************************************************************)
EXTENDS Integers, Sequences, FiniteSets, TLC

\* ------------------------------------------------------------------ bounds

\* send_message calls accepted over the life of the stream
MaxSends == 2

\* datagrams recv_from returns to one send
MaxDgrams == 2

\* ---------------------------------------------------------------- universe

\* the response futures the caller holds at once
Slots == {1, 2}

\* values random_query_id() can return (u16 in the code)
IDs == {1, 2}

\* the peer the stream was connected to (name_server)
NameServer == [ip |-> 1, port |-> 53]

\* addresses a datagram can come from: the peer, another port of the peer's
\* host, and the peer's port on another host
Addrs == {NameServer, [ip |-> 1, port |-> 54], [ip |-> 2, port |-> 53]}

\* wire codes of well-formed questions; any other code does not decode
Questions == {1, 2, 3}

\* question sections a request can carry
RequestQueries == {<<1, 2>>}

\* ------------------------------------------------------------ wire format

\* Message::to_vec: the header id followed by the question section
ToVec(message) == <<message.id>> \o message.queries

\* Message::from_vec: fails on a payload with no header or with a question
\* that does not decode, otherwise yields the header id and the questions
FromVec(bytes) ==
    IF Len(bytes) = 0 \/ \E i \in 2..Len(bytes) : bytes[i] \notin Questions
    THEN [ok |-> FALSE]
    ELSE [ok |-> TRUE, id |-> bytes[1], queries |-> SubSeq(bytes, 2, Len(bytes))]

\* payloads a datagram can carry (each fits the receive buffer): empty, a
\* question that does not decode, and every message with an id of IDs and
\* no question, one or both of the request's, or one of them and another
Payloads ==
    {<<>>, <<1, 0>>}
      \cup {<<i>> \o qs : i \in IDs, qs \in {<<>>, <<1>>, <<1, 2>>, <<1, 3>>}}

\* what a host other than the peer sends: the reply the peer itself would
\* give, with either id and the request's questions
Forgeries == {<<i>> \o qs : i \in IDs, qs \in RequestQueries}

\* what recv_from can return: (len, src) and the bytes read
Dgrams ==
    {[src |-> NameServer, bytes |-> b] : b \in Payloads}
      \cup {[src |-> a, bytes |-> b] : a \in Addrs \ {NameServer}, b \in Forgeries}

\* ------------------------------------------------------------------ state

VARIABLES
    is_shutdown,    \* UdpClientStream.is_shutdown
    signer,         \* UdpClientStream.signer is Some
    panicked,       \* send_message panicked (send after shutdown)
    nsends,         \* send_message calls accepted so far
    pc,             \* per slot: where its response future stands
    msg_id,         \* per slot: message_id
    request,        \* per slot: the serialized request (SerialMessage bytes)
    verifier,       \* per slot: a verifier was returned by finalize
    socket,         \* per slot: the socket bound by the future, 0 before
    nsockets,       \* sockets bound so far
    open,           \* sockets currently open
    nread,          \* per slot: datagrams recv_from returned
    vcalls,         \* per slot: verifier invocations
    outcome,        \* per slot: what the response future resolved to
    delivered,      \* per slot: the datagram whose processing resolved it
    item,           \* what the last poll_next of the stream yielded
    authority,      \* the last AuthorityObject call: operation, arguments, outcome
    lookup_object,  \* a LookupObject and the calls made on it so far
    connect,        \* a UdpClientConnect: how it was made, its fields, its polls
    seeded_rng,     \* no_std: SEEDED_RNG, its guard and the callers of the generator
    filtering,      \* one receive loop, one filter at a time: where it stands
    recv_buf        \* one send's receive buffer: its size and what was read into it

\* the state of the stream's sends
sends == <<is_shutdown, signer, panicked, nsends, pc, msg_id, request, verifier,
           socket, nsockets, open, nread, vcalls, outcome, delivered>>

vars == <<is_shutdown, signer, panicked, nsends, pc, msg_id, request, verifier,
          socket, nsockets, open, nread, vcalls, outcome, delivered, item,
          authority, lookup_object, connect, seeded_rng,
          filtering, recv_buf>>

\* the state of the parts beside the stream and the authority
parts == <<lookup_object, connect, seeded_rng, filtering, recv_buf>>

Pending == [kind |-> "pending"]

NoDgram == [sock |-> 0]

Error(e) == [kind |-> "error", error |-> e]

\* DnsResponse::new(message, buffer)
DnsResponse(message, buffer) ==
    [kind |-> "response", id |-> message.id, queries |-> message.queries,
     buffer |-> buffer]

InFlight == {"bind", "send_to", "recv_from"}

Init ==
    /\ is_shutdown = FALSE
    /\ signer \in BOOLEAN
    /\ panicked = FALSE
    /\ nsends = 0
    /\ pc = [f \in Slots |-> "idle"]
    /\ msg_id = [f \in Slots |-> 0]
    /\ request = [f \in Slots |-> <<>>]
    /\ verifier = [f \in Slots |-> FALSE]
    /\ socket = [f \in Slots |-> 0]
    /\ nsockets = 0
    /\ open = {}
    /\ nread = [f \in Slots |-> 0]
    /\ vcalls = [f \in Slots |-> 0]
    /\ outcome = [f \in Slots |-> Pending]
    /\ delivered = [f \in Slots |-> NoDgram]
    /\ item = "unpolled"
    /\ authority = [op |-> "none"]
    /\ lookup_object = [object |-> [kind |-> "EmptyLookup"], log |-> <<>>]
    /\ connect = [constructor |-> "none", polls |-> <<>>]
    /\ seeded_rng = [value |-> 0, init |-> FALSE, holder |-> {}, borrowed |-> {},
                     panicked |-> FALSE, suspended |-> {},
                     pc |-> [c \in {1, 2} |-> "out"],
                     op |-> [c \in {1, 2} |-> "none"],
                     seed |-> [c \in {1, 2} |-> 0],
                     out |-> [c \in {1, 2} |-> 0]]
    /\ filtering = [msg |-> <<>>, msg_id |-> 0, nread |-> 0,
                    d |-> [src |-> [ip |-> 1, port |-> 53], bytes |-> <<>>],
                    checks |-> <<>>, verdict |-> "idle"]
    /\ recv_buf = [stage |-> "idle", passed |-> 0, finalized |-> FALSE,
                   max_payload |-> 0, recv_buf_size |-> 0,
                   capacity |-> 0, len |-> 0]

\* ------------------------------------------------------------ the filters

\* SourceMismatch with the port comparison left out
SourceMismatchIpOnly(src, request_target) == src.ip # request_target.ip

\* src.ip() != request_target.ip() || src.port() != request_target.port()
SourceMismatch(src, request_target) ==
    src.ip # request_target.ip \/ src.port # request_target.port

\* QueriesContained with the question check left out
QueriesUnchecked(response_queries, request_queries) == TRUE

\* QueriesContained as equality of the two question sections
QueriesEqual(response_queries, request_queries) == response_queries = request_queries

\* response_queries.iter().all(|elem| request_queries.contains(elem))
QueriesContained(response_queries, request_queries) ==
    \A i \in 1..Len(response_queries) :
        \E j \in 1..Len(request_queries) : request_queries[j] = response_queries[i]

\* Filter with the id comparison left out
FilterNoId(msg_bytes, addr, id, d) ==
    IF SourceMismatch(d.src, addr) THEN "source"
    ELSE LET message == FromVec(d.bytes) IN
         IF ~message.ok THEN "parse"
         ELSE LET request_message == FromVec(msg_bytes) IN
              IF ~request_message.ok THEN "request"
              ELSE IF ~QueriesContained(message.queries, request_message.queries)
                   THEN "question"
                   ELSE "pass"

\* One pass of the loop body over a datagram: the filter that drops it, the
\* error of re-parsing the request, or "pass"
Filter(msg_bytes, addr, id, d) ==
    IF SourceMismatch(d.src, addr) THEN "source"
    ELSE LET message == FromVec(d.bytes) IN
         IF ~message.ok THEN "parse"
         ELSE IF id # message.id THEN "id"
         ELSE LET request_message == FromVec(msg_bytes) IN
              IF ~request_message.ok THEN "request"
              ELSE IF ~QueriesContained(message.queries, request_message.queries)
                   THEN "question"
                   ELSE "pass"

Dropped == {"source", "parse", "id", "question"}

\* A MessageVerifier applied to the raw bytes: it accepts, yielding the
\* response decoded from those bytes, or rejects
Verify(buffer, accept) ==
    IF accept THEN DnsResponse(FromVec(buffer), buffer) ELSE Error("verifier")

\* NextRandomUdpSocket::new(..).await: a socket no earlier call returned
NextRandomUdpSocket(bound) == bound + 1

\* Answer with the verifier left out
AnswerUnverified(has_verifier, buffer, accept) == DnsResponse(FromVec(buffer), buffer)

\* if let Some(mut verifier) = verifier { verifier(&buffer) } else
\* { Ok(DnsResponse::new(message, buffer)) }
Answer(has_verifier, buffer, accept) ==
    IF has_verifier THEN Verify(buffer, accept)
    ELSE DnsResponse(FromVec(buffer), buffer)

\* Refused with the test of is_shutdown left out
NeverRefused == FALSE

\* if self.is_shutdown { panic!(..) }
Refused == is_shutdown

\* OwnSocket with one socket shared by the stream's sends: the oldest open
SharedSocket(f) == CHOOSE k \in open : \A j \in open : k <= j

\* the socket a future reads: the one it bound, moved into the loop
OwnSocket(f) == socket[f]

\* ---------------------------------------------------------------- actions

\* Resolve with the socket left open
ResolveLeakingSocket(f, out, d) ==
    /\ pc' = [pc EXCEPT ![f] = "done"]
    /\ outcome' = [outcome EXCEPT ![f] = out]
    /\ delivered' = [delivered EXCEPT ![f] = d]
    /\ open' = open

\* The response future in slot f resolves to out; the socket it owns is
\* dropped with it and closes.  d is the datagram whose processing resolved
\* it.  What the slot records of the send stays until the caller takes the
\* result.
Resolve(f, out, d) ==
    /\ pc' = [pc EXCEPT ![f] = "done"]
    /\ outcome' = [outcome EXCEPT ![f] = out]
    /\ delivered' = [delivered EXCEPT ![f] = d]
    /\ open' = open \ {socket[f]}

\* Finalizes with should_finalize_message not consulted
FinalizesUnasked(has_signer, should_finalize) == has_signer

\* if let Some(ref signer) = self.signer { if signer.should_finalize_message(..)
\* : whether message.finalize is called
Finalizes(has_signer, should_finalize) == has_signer /\ should_finalize

\* PreSendFailure with the clock error ignored
PreSendFailureNoEpoch(clock_ok, signing, finalize, to_vec_ok) ==
    IF signing /\ finalize = "err" THEN "signer"
    ELSE IF ~to_vec_ok THEN "serialize"
    ELSE "none"

\* The early returns of send_message, in the order of the code: the clock
\* before the epoch, finalize failing, to_vec failing
PreSendFailure(clock_ok, signing, finalize, to_vec_ok) ==
    IF ~clock_ok THEN "epoch"
    ELSE IF signing /\ finalize = "err" THEN "signer"
    ELSE IF ~to_vec_ok THEN "serialize"
    ELSE "none"

\* the slot the next response future goes to
FreeSlot == CHOOSE f \in Slots : pc[f] = "idle" /\ \A g \in Slots : pc[g] = "idle" => f <= g

\* send_message on a stream that is not shut down.  Inputs: the random id,
\* the request's questions, whether the clock is past the epoch, what the
\* signer answers, and whether the message serializes.
SendMessage(id, queries, clock_ok, should_finalize, finalize, to_vec_ok) ==
    LET f == FreeSlot
        signing == Finalizes(signer, should_finalize)
        failure == PreSendFailure(clock_ok, signing, finalize, to_vec_ok)
    IN
    /\ ~Refused
    /\ nsends < MaxSends
    /\ \E g \in Slots : pc[g] = "idle"
    /\ nsends' = nsends + 1
    /\ IF failure # "none"
       THEN /\ pc' = [pc EXCEPT ![f] = "done"]
            /\ outcome' = [outcome EXCEPT ![f] = Error(failure)]
            /\ UNCHANGED <<msg_id, request, verifier>>
       ELSE /\ pc' = [pc EXCEPT ![f] = "bind"]
            /\ msg_id' = [msg_id EXCEPT ![f] = id]
            /\ request' = [request EXCEPT ![f] = ToVec([id |-> id, queries |-> queries])]
            /\ verifier' = [verifier EXCEPT ![f] = signing /\ finalize = "verifier"]
            /\ UNCHANGED outcome
    /\ UNCHANGED <<is_shutdown, signer, panicked, socket, nsockets, open, nread,
                   vcalls, delivered>>
    /\ UNCHANGED <<item, authority, parts>>

\* send_message on a stream that is shut down: panic before anything else
SendAfterShutdown ==
    /\ Refused
    /\ panicked' = TRUE
    /\ UNCHANGED <<is_shutdown, signer, nsends, pc, msg_id, request, verifier,
                   socket, nsockets, open, nread, vcalls, outcome, delivered>>
    /\ UNCHANGED <<item, authority, parts>>

\* Shutdown that cancels the sends in flight
ShutdownCancelling ==
    /\ is_shutdown' = TRUE
    /\ pc' = [f \in Slots |-> IF pc[f] \in InFlight THEN "done" ELSE pc[f]]
    /\ outcome' = [f \in Slots |-> IF pc[f] \in InFlight THEN Error("shutdown")
                                     ELSE outcome[f]]
    /\ open' = {}
    /\ UNCHANGED <<signer, panicked, nsends, msg_id, request, verifier,
                   socket, nsockets, nread, vcalls, delivered>>
    /\ UNCHANGED <<item, authority, parts>>

\* fn shutdown(&mut self) { self.is_shutdown = true; }
Shutdown ==
    /\ is_shutdown' = TRUE
    /\ UNCHANGED <<signer, panicked, nsends, pc, msg_id, request, verifier,
                   socket, nsockets, open, nread, vcalls, outcome, delivered>>
    /\ UNCHANGED <<item, authority, parts>>

\* Bind with the socket kept by the stream: bound by the first send, used
\* again by the later ones
BindReusing(f, ok) ==
    /\ pc[f] = "bind"
    /\ IF ok
       THEN /\ socket' = [socket EXCEPT ![f] = 1]
            /\ nsockets' = IF nsockets = 0 THEN 1 ELSE nsockets
            /\ open' = open \cup {1}
            /\ pc' = [pc EXCEPT ![f] = "send_to"]
            /\ UNCHANGED <<outcome, delivered>>
       ELSE /\ Resolve(f, Error("bind"), NoDgram)
            /\ UNCHANGED <<socket, nsockets>>
    /\ UNCHANGED <<is_shutdown, signer, panicked, nsends, msg_id, request,
                   verifier, nread, vcalls>>
    /\ UNCHANGED <<item, authority, parts>>

\* The future's first step: NextRandomUdpSocket::new(..).await?
Bind(f, ok) ==
    /\ pc[f] = "bind"
    /\ IF ok
       THEN /\ socket' = [socket EXCEPT ![f] = NextRandomUdpSocket(nsockets)]
            /\ nsockets' = nsockets + 1
            /\ open' = open \cup {socket'[f]}
            /\ pc' = [pc EXCEPT ![f] = "send_to"]
            /\ UNCHANGED <<outcome, delivered>>
       ELSE /\ Resolve(f, Error("bind"), NoDgram)
            /\ UNCHANGED <<socket, nsockets>>
    /\ UNCHANGED <<is_shutdown, signer, panicked, nsends, msg_id, request,
                   verifier, nread, vcalls>>
    /\ UNCHANGED <<item, authority, parts>>

\* SendTo with the error of send_to ignored
SendToIgnoringError(f, len_sent) ==
    /\ pc[f] = "send_to"
    /\ IF len_sent # -1 /\ Len(request[f]) # len_sent
       THEN Resolve(f, Error("short"), NoDgram)
       ELSE /\ pc' = [pc EXCEPT ![f] = "recv_from"]
            /\ UNCHANGED <<outcome, delivered, open>>
    /\ UNCHANGED <<is_shutdown, signer, panicked, nsends, msg_id, request,
                   verifier, socket, nsockets, nread, vcalls>>
    /\ UNCHANGED <<item, authority, parts>>

\* SendTo with the length check left out
SendToUnchecked(f, len_sent) ==
    /\ pc[f] = "send_to"
    /\ IF len_sent = -1 THEN Resolve(f, Error("io"), NoDgram)
       ELSE /\ pc' = [pc EXCEPT ![f] = "recv_from"]
            /\ UNCHANGED <<outcome, delivered, open>>
    /\ UNCHANGED <<is_shutdown, signer, panicked, nsends, msg_id, request,
                   verifier, socket, nsockets, nread, vcalls>>
    /\ UNCHANGED <<item, authority, parts>>

\* socket.send_to(bytes, addr).await? and the length check; len_sent is the
\* number of bytes the socket reports, -1 stands for an I/O error
SendTo(f, len_sent) ==
    /\ pc[f] = "send_to"
    /\ IF len_sent = -1 THEN Resolve(f, Error("io"), NoDgram)
       ELSE IF Len(request[f]) # len_sent THEN Resolve(f, Error("short"), NoDgram)
       ELSE /\ pc' = [pc EXCEPT ![f] = "recv_from"]
            /\ UNCHANGED <<outcome, delivered, open>>
    /\ UNCHANGED <<is_shutdown, signer, panicked, nsends, msg_id, request,
                   verifier, socket, nsockets, nread, vcalls>>
    /\ UNCHANGED <<item, authority, parts>>

\* RecvFrom with a rejection by the verifier treated like a failed filter:
\* the datagram is dropped and the loop goes on
RecvFromRejectionDropped(f, d, accept) ==
    LET verdict == Filter(request[f], NameServer, msg_id[f], d)
        dgram == [sock |-> OwnSocket(f), src |-> d.src, bytes |-> d.bytes]
    IN
    /\ pc[f] = "recv_from"
    /\ nread[f] < MaxDgrams
    /\ nread' = [nread EXCEPT ![f] = @ + 1]
    /\ IF verdict \in Dropped
       THEN UNCHANGED <<pc, outcome, delivered, open, vcalls>>
       ELSE IF verdict = "request"
       THEN /\ Resolve(f, Error("parse"), dgram)
            /\ UNCHANGED vcalls
       ELSE IF verifier[f] /\ ~accept
       THEN /\ vcalls' = [vcalls EXCEPT ![f] = @ + 1]
            /\ UNCHANGED <<pc, outcome, delivered, open>>
       ELSE /\ Resolve(f, Answer(verifier[f], d.bytes, accept), dgram)
            /\ vcalls' = [vcalls EXCEPT ![f] = IF verifier[f] THEN @ + 1 ELSE @]
    /\ UNCHANGED <<is_shutdown, signer, panicked, nsends, msg_id, request,
                   verifier, socket, nsockets>>
    /\ UNCHANGED <<item, authority, parts>>

\* One iteration of the loop: recv_from returns datagram d on the future's
\* socket, the filters run, and on a pass the verifier (accepting or not) or
\* the default response resolves the future.
RecvFrom(f, d, accept) ==
    LET verdict == Filter(request[f], NameServer, msg_id[f], d)
        dgram == [sock |-> OwnSocket(f), src |-> d.src, bytes |-> d.bytes]
    IN
    /\ pc[f] = "recv_from"
    /\ nread[f] < MaxDgrams
    /\ nread' = [nread EXCEPT ![f] = @ + 1]
    /\ IF verdict \in Dropped
       THEN UNCHANGED <<pc, outcome, delivered, open, vcalls>>
       ELSE IF verdict = "request"
       THEN /\ Resolve(f, Error("parse"), dgram)
            /\ UNCHANGED vcalls
       ELSE /\ Resolve(f, Answer(verifier[f], d.bytes, accept), dgram)
            /\ vcalls' = [vcalls EXCEPT ![f] = IF verifier[f] THEN @ + 1 ELSE @]
    /\ UNCHANGED <<is_shutdown, signer, panicked, nsends, msg_id, request,
                   verifier, socket, nsockets>>
    /\ UNCHANGED <<item, authority, parts>>

\* RecvError with the error swallowed: the request is sent again
RecvErrorRetried(f) ==
    /\ pc[f] = "recv_from"
    /\ pc' = [pc EXCEPT ![f] = "send_to"]
    /\ UNCHANGED <<is_shutdown, signer, panicked, nsends, msg_id, request,
                   verifier, socket, nsockets, open, nread, vcalls, outcome,
                   delivered>>
    /\ UNCHANGED <<item, authority, parts>>

\* socket.recv_from(..).await? returns an I/O error
RecvError(f) ==
    /\ pc[f] = "recv_from"
    /\ Resolve(f, Error("io"), NoDgram)
    /\ UNCHANGED <<is_shutdown, signer, panicked, nsends, msg_id, request,
                   verifier, socket, nsockets, nread, vcalls>>
    /\ UNCHANGED <<item, authority, parts>>

\* Timeout wrapped around the bind alone
TimeoutBindOnly(f) ==
    /\ pc[f] = "bind"
    /\ Resolve(f, Error("timeout"), NoDgram)
    /\ UNCHANGED <<is_shutdown, signer, panicked, nsends, msg_id, request,
                   verifier, socket, nsockets, nread, vcalls>>
    /\ UNCHANGED <<item, authority, parts>>

\* Timeout wrapped around the receive loop alone
TimeoutRecvOnly(f) ==
    /\ pc[f] = "recv_from"
    /\ Resolve(f, Error("timeout"), NoDgram)
    /\ UNCHANGED <<is_shutdown, signer, panicked, nsends, msg_id, request,
                   verifier, socket, nsockets, nread, vcalls>>
    /\ UNCHANGED <<item, authority, parts>>

\* P::Timer::timeout: the timer fires while the inner future is pending at
\* one of its suspension points; the inner future is dropped
Timeout(f) ==
    /\ pc[f] \in InFlight
    /\ Resolve(f, Error("timeout"), NoDgram)
    /\ UNCHANGED <<is_shutdown, signer, panicked, nsends, msg_id, request,
                   verifier, socket, nsockets, nread, vcalls>>
    /\ UNCHANGED <<item, authority, parts>>

\* The caller takes the result of a resolved future and lets go of it
Take(f) ==
    /\ pc[f] = "done"
    /\ pc' = [pc EXCEPT ![f] = "idle"]
    /\ msg_id' = [msg_id EXCEPT ![f] = 0]
    /\ request' = [request EXCEPT ![f] = <<>>]
    /\ verifier' = [verifier EXCEPT ![f] = FALSE]
    /\ socket' = [socket EXCEPT ![f] = 0]
    /\ nread' = [nread EXCEPT ![f] = 0]
    /\ vcalls' = [vcalls EXCEPT ![f] = 0]
    /\ outcome' = [outcome EXCEPT ![f] = Pending]
    /\ delivered' = [delivered EXCEPT ![f] = NoDgram]
    /\ UNCHANGED <<is_shutdown, signer, panicked, nsends, nsockets, open>>
    /\ UNCHANGED <<item, authority, parts>>

Next ==
    \/ \E id \in IDs, queries \in RequestQueries, clock_ok \in BOOLEAN,
          should_finalize \in BOOLEAN, finalize \in {"err", "none", "verifier"},
          to_vec_ok \in BOOLEAN :
          SendMessage(id, queries, clock_ok, should_finalize, finalize, to_vec_ok)
    \/ SendAfterShutdown
    \/ Shutdown
    \/ \E f \in Slots, ok \in BOOLEAN : Bind(f, ok)
    \/ \E f \in Slots : \E len_sent \in {-1, Len(request[f]) - 1, Len(request[f])} :
          SendTo(f, len_sent)
    \/ \E f \in Slots, d \in Dgrams :
          \E accept \in (IF verifier[f] THEN BOOLEAN ELSE {TRUE}) :
             RecvFrom(f, d, accept)
    \/ \E f \in Slots : RecvError(f)
    \/ \E f \in Slots : Timeout(f)
    \/ \E f \in Slots : Take(f)

Spec == Init /\ [][Next]_vars

\* The timer of a pending send eventually fires
FairSpec == Spec /\ \A f \in Slots : WF_vars(Timeout(f))

\* ---------------------------------------------- dropping a response future

\* The caller drops the response future of slot f while it is pending at one
\* of its suspension points (the bind, send_to, recv_from): the timer and the
\* inner future go with it, and with the inner future the socket it owns
DropFuture(f) ==
    /\ pc[f] \in InFlight
    /\ pc' = [pc EXCEPT ![f] = "dropped"]
    /\ open' = open \ {socket[f]}
    /\ UNCHANGED <<is_shutdown, signer, panicked, nsends, msg_id, request,
                   verifier, socket, nsockets, nread, vcalls, outcome, delivered>>
    /\ UNCHANGED <<item, authority, parts>>

\* the stream's sends, any of which the caller may drop
DropNext == Next \/ \E f \in Slots : DropFuture(f)

DropSpec == Init /\ [][DropNext]_vars

\* ------------------------------------------------------ polling the stream

\* PollItem that never ends the stream
PollItemAlive(shutdown) == "Some(Ok(()))"

\* poll_next: Poll::Ready(None) once shut down, Poll::Ready(Some(Ok(())))
\* before
PollItem(shutdown) == IF shutdown THEN "None" ELSE "Some(Ok(()))"

\* Stream::poll_next on the stream
PollNext ==
    /\ item' = PollItem(is_shutdown)
    /\ UNCHANGED <<sends, authority, parts>>

\* the stream with its sends, polled as a Stream at any time
StreamNext == Next \/ PollNext

StreamSpec == Init /\ [][StreamNext]_vars

\* -------------------------------------------------------- AuthorityObject

\* the zone's origin and a name below it
Origin == "example.com"

LowerNames == {Origin, "www.example.com"}

RecordTypes == {"A", "NS", "SOA"}

\* LookupOptions: the DNSSEC-OK bit of the request
LookupOptions == [dnssec_ok : BOOLEAN]

\* LookupOptions::default(): the DNSSEC-OK bit unset
LookupOptionsDefault == [dnssec_ok |-> FALSE]

\* what a backend's lookup type L can hold, and the errors of a lookup
Lookups == {"records", "empty"}

LookupErrors == {"NxDomain", "Refused"}

\* LookupControlFlow<L>: Continue(Result<L, LookupError>),
\* Break(Result<L, LookupError>) or Skip
ControlFlows ==
    {[variant |-> v, ok |-> TRUE, lookup |-> l] : v \in {"Continue", "Break"}, l \in Lookups}
      \cup {[variant |-> v, ok |-> FALSE, error |-> e] :
               v \in {"Continue", "Break"}, e \in LookupErrors}
      \cup {[variant |-> "Skip"]}

\* Box<dyn LookupObject> made of a backend's lookup
BoxDyn(lookup) == [boxed |-> lookup]

\* LookupControlFlow::map_dyn: the lookup of an Ok result is boxed, the
\* variant and an error stay
MapDyn(flow) ==
    IF flow.variant # "Skip" /\ flow.ok
    THEN [variant |-> flow.variant, ok |-> TRUE, lookup |-> BoxDyn(flow.lookup)]
    ELSE flow

\* The outcome of an operation of the blanket impl: the call it made on the
\* backend Authority, what the backend answered, and what it returns
Forwarded(call, answer) ==
    [call |-> call, answer |-> answer, returned |-> MapDyn(answer)]

\* AuthorityObjectLookup that returns every Ok result as Continue
AuthorityObjectLookupContinuing(name, rtype, lookup_options, answer) ==
    [call |-> [op |-> "lookup", name |-> name, rtype |-> rtype, options |-> lookup_options],
     answer |-> answer,
     returned |-> IF answer.variant = "Break"
                  THEN [MapDyn(answer) EXCEPT !.variant = "Continue"]
                  ELSE MapDyn(answer)]

\* <A as AuthorityObject>::lookup:
\* Authority::lookup(self, name, rtype, lookup_options).await.map_dyn()
AuthorityObjectLookup(name, rtype, lookup_options, answer) ==
    Forwarded([op |-> "lookup", name |-> name, rtype |-> rtype,
               options |-> lookup_options], answer)

\* <A as AuthorityObject>::search:
\* Authority::search(self, request_info, lookup_options).await.map_dyn()
AuthorityObjectSearch(request_info, lookup_options, answer) ==
    Forwarded([op |-> "search", request_info |-> request_info,
               options |-> lookup_options], answer)

\* <A as AuthorityObject>::get_nsec_records:
\* Authority::get_nsec_records(self, name, lookup_options).await.map_dyn()
GetNsecRecords(name, lookup_options, answer) ==
    Forwarded([op |-> "get_nsec_records", name |-> name,
               options |-> lookup_options], answer)

\* <A as AuthorityObject>::get_nsec3_records (feature dnssec):
\* Authority::get_nsec3_records(self, info, lookup_options).await.map_dyn()
GetNsec3Records(info, lookup_options, answer) ==
    Forwarded([op |-> "get_nsec3_records", info |-> info,
               options |-> lookup_options], answer)

\* Ns with the caller's options dropped
NsDefaultOptions(lookup_options, answer) ==
    AuthorityObjectLookup(Origin, "NS", LookupOptionsDefault, answer)

\* AuthorityObject::ns: self.lookup(self.origin(), RecordType::NS, lookup_options)
Ns(lookup_options, answer) ==
    AuthorityObjectLookup(Origin, "NS", lookup_options, answer)

\* Soa asking for signatures
SoaDnssecOk(answer) ==
    AuthorityObjectLookup(Origin, "SOA", [dnssec_ok |-> TRUE], answer)

\* AuthorityObject::soa:
\* self.lookup(self.origin(), RecordType::SOA, LookupOptions::default())
Soa(answer) ==
    AuthorityObjectLookup(Origin, "SOA", LookupOptionsDefault, answer)

\* AuthorityObject::soa_secure:
\* self.lookup(self.origin(), RecordType::SOA, lookup_options)
SoaSecure(lookup_options, answer) ==
    AuthorityObjectLookup(Origin, "SOA", lookup_options, answer)

\* What is recorded of a call of operation op of the boxed authority made
\* while a request with options request_options is served: args are the
\* arguments the caller passed and out is the outcome
Called(op, request_options, args, out) ==
    [op |-> op, request_options |-> request_options, args |-> args, out |-> out]

LookupCall(request_options, name, rtype, lookup_options, answer) ==
    /\ authority' = Called("lookup", request_options, <<name, rtype, lookup_options>>,
                           AuthorityObjectLookup(name, rtype, lookup_options, answer))
    /\ UNCHANGED <<sends, item, parts>>

SearchCall(request_options, request_info, lookup_options, answer) ==
    /\ authority' = Called("search", request_options, <<request_info, lookup_options>>,
                           AuthorityObjectSearch(request_info, lookup_options, answer))
    /\ UNCHANGED <<sends, item, parts>>

GetNsecRecordsCall(request_options, name, lookup_options, answer) ==
    /\ authority' = Called("get_nsec_records", request_options, <<name, lookup_options>>,
                           GetNsecRecords(name, lookup_options, answer))
    /\ UNCHANGED <<sends, item, parts>>

GetNsec3RecordsCall(request_options, info, lookup_options, answer) ==
    /\ authority' = Called("get_nsec3_records", request_options, <<info, lookup_options>>,
                           GetNsec3Records(info, lookup_options, answer))
    /\ UNCHANGED <<sends, item, parts>>

NsCall(request_options, lookup_options, answer) ==
    /\ authority' = Called("ns", request_options, <<lookup_options>>,
                           Ns(lookup_options, answer))
    /\ UNCHANGED <<sends, item, parts>>

SoaCall(request_options, answer) ==
    /\ authority' = Called("soa", request_options, <<>>, Soa(answer))
    /\ UNCHANGED <<sends, item, parts>>

SoaSecureCall(request_options, lookup_options, answer) ==
    /\ authority' = Called("soa_secure", request_options, <<lookup_options>>,
                           SoaSecure(lookup_options, answer))
    /\ UNCHANGED <<sends, item, parts>>

\* RequestInfo of a search: the query's name and type
RequestInfos == [name : LowerNames, rtype : RecordTypes]

AuthorityNext ==
    \/ \E request_options \in LookupOptions, name \in LowerNames, rtype \in RecordTypes,
          lookup_options \in LookupOptions, answer \in ControlFlows :
          LookupCall(request_options, name, rtype, lookup_options, answer)
    \/ \E request_options \in LookupOptions, request_info \in RequestInfos,
          lookup_options \in LookupOptions, answer \in ControlFlows :
          SearchCall(request_options, request_info, lookup_options, answer)
    \/ \E request_options \in LookupOptions, name \in LowerNames,
          lookup_options \in LookupOptions, answer \in ControlFlows :
          GetNsecRecordsCall(request_options, name, lookup_options, answer)
    \/ \E request_options \in LookupOptions, info \in LowerNames,
          lookup_options \in LookupOptions, answer \in ControlFlows :
          GetNsec3RecordsCall(request_options, info, lookup_options, answer)
    \/ \E request_options \in LookupOptions, lookup_options \in LookupOptions,
          answer \in ControlFlows :
          NsCall(request_options, lookup_options, answer)
    \/ \E request_options \in LookupOptions, answer \in ControlFlows :
          SoaCall(request_options, answer)
    \/ \E request_options \in LookupOptions, lookup_options \in LookupOptions,
          answer \in ControlFlows :
          SoaSecureCall(request_options, lookup_options, answer)

AuthoritySpec == Init /\ [][AuthorityNext]_vars

\* ------------------------------------------------------------ LookupObject

\* calls made on one lookup object
MaxCalls == 3

\* records a lookup can hold
Records == {"cname", "a"}

\* pub struct EmptyLookup: a unit struct
EmptyLookup == [kind |-> "EmptyLookup"]

\* DnssecSummary
DnssecSummaries == {"Secure", "Bogus", "Insecure"}

\* A backend's lookup type behind the trait: its records, the chained lookup
\* it holds for the additional section, if any, and its validation status
RecordsLookups ==
    {[kind |-> "records", records |-> rs, additionals |-> a, summary |-> s] :
        rs \in SUBSET Records, a \in {"None", "Some"}, s \in DnssecSummaries}

\* EmptyLookup::is_empty
EmptyLookupIsEmpty(self) == TRUE

\* EmptyLookup::iter: Box::new([].iter())
EmptyLookupIter(self) == {}

\* EmptyLookupTakeAdditionals handing out a chained lookup at every call
EmptyLookupTakeAdditionalsSome(self) == [ret |-> "Some", self |-> self]

\* EmptyLookup::take_additionals: None; ret is what the call returns and self
\* the object after it
EmptyLookupTakeAdditionals(self) == [ret |-> "None", self |-> self]

\* LookupObjectDnssecSummary reporting validated records
LookupObjectDnssecSummarySecure(self) == "Secure"

\* LookupObject::dnssec_summary, the provided method, which EmptyLookup does
\* not override
LookupObjectDnssecSummary(self) == "Insecure"

\* take_additionals of a backend's lookup: Option::take of the chained lookup
RecordsTakeAdditionals(self) ==
    [ret |-> self.additionals, self |-> [self EXCEPT !.additionals = "None"]]

\* dyn LookupObject dispatch
IsEmpty(self) ==
    IF self.kind = "EmptyLookup" THEN EmptyLookupIsEmpty(self) ELSE self.records = {}

Iter(self) ==
    IF self.kind = "EmptyLookup" THEN EmptyLookupIter(self) ELSE self.records

TakeAdditionals(self) ==
    IF self.kind = "EmptyLookup" THEN EmptyLookupTakeAdditionals(self)
    ELSE RecordsTakeAdditionals(self)

DnssecSummary(self) ==
    IF self.kind = "EmptyLookup" THEN LookupObjectDnssecSummary(self) ELSE self.summary

\* what is recorded of a call on the lookup object
Logged(op, ret) == Append(lookup_object.log, [op |-> op, ret |-> ret])

\* a backend hands out a lookup object
NewLookup(l) ==
    /\ lookup_object' = [object |-> l, log |-> <<>>]
    /\ UNCHANGED <<sends, item, authority, connect, seeded_rng, filtering, recv_buf>>

IsEmptyCall ==
    /\ Len(lookup_object.log) < MaxCalls
    /\ lookup_object' = [lookup_object EXCEPT !.log = Logged("is_empty", IsEmpty(lookup_object.object))]
    /\ UNCHANGED <<sends, item, authority, connect, seeded_rng, filtering, recv_buf>>

IterCall ==
    /\ Len(lookup_object.log) < MaxCalls
    /\ lookup_object' = [lookup_object EXCEPT !.log = Logged("iter", Iter(lookup_object.object))]
    /\ UNCHANGED <<sends, item, authority, connect, seeded_rng, filtering, recv_buf>>

TakeAdditionalsCall ==
    /\ Len(lookup_object.log) < MaxCalls
    /\ lookup_object' = [object |-> TakeAdditionals(lookup_object.object).self,
                  log |-> Logged("take_additionals", TakeAdditionals(lookup_object.object).ret)]
    /\ UNCHANGED <<sends, item, authority, connect, seeded_rng, filtering, recv_buf>>

DnssecSummaryCall ==
    /\ Len(lookup_object.log) < MaxCalls
    /\ lookup_object' = [lookup_object EXCEPT
                     !.log = Logged("dnssec_summary", DnssecSummary(lookup_object.object))]
    /\ UNCHANGED <<sends, item, authority, connect, seeded_rng, filtering, recv_buf>>

LookupNext ==
    \/ \E l \in {EmptyLookup} \cup RecordsLookups : NewLookup(l)
    \/ IsEmptyCall
    \/ IterCall
    \/ TakeAdditionalsCall
    \/ DnssecSummaryCall

LookupSpec == Init /\ [][LookupNext]_vars

\* -------------------------------------------------------- UdpClientConnect

\* polls of one connect future
MaxPolls == 2

\* timeouts a caller can ask for, in seconds
Timeouts == {1, 5, 30}

\* Option<SocketAddr> of the bind address, Option<Arc<MF>> of the signer
NoBindAddr == [some |-> FALSE]

BindAddrs == {NoBindAddr, [some |-> TRUE, ip |-> 3, port |-> 0]}

Signers == {"None", "Some"}

\* with_timeout_and_signer_and_bind_addr: the UdpClientConnect it builds
WithTimeoutAndSignerAndBindAddr(name_server, timeout, mf_signer, bind_addr) ==
    [name_server |-> name_server, timeout |-> timeout, signer |-> mf_signer,
     bind_addr |-> bind_addr]

\* with_timeout_and_signer: bind_addr: None
WithTimeoutAndSigner(name_server, timeout, mf_signer) ==
    [name_server |-> name_server, timeout |-> timeout, signer |-> mf_signer,
     bind_addr |-> NoBindAddr]

\* with_provider: bind_addr: None
WithProvider(name_server, mf_signer, timeout) ==
    [name_server |-> name_server, timeout |-> timeout, signer |-> mf_signer,
     bind_addr |-> NoBindAddr]

\* with_bind_addr_and_timeout
WithBindAddrAndTimeout(name_server, bind_addr, timeout) ==
    WithTimeoutAndSignerAndBindAddr(name_server, timeout, "None", bind_addr)

\* with_timeout
WithTimeout(name_server, timeout) ==
    WithBindAddrAndTimeout(name_server, NoBindAddr, timeout)

\* UdpClientStream::new with the timeout of one second
NewOneSecond(name_server) == WithTimeout(name_server, 1)

\* UdpClientStream::new: with_timeout(name_server, Duration::from_secs(5), ..)
New(name_server) == WithTimeout(name_server, 5)

\* UdpClientConnect::poll: Poll::Ready(Ok(UdpClientStream {..})) built from
\* the future's fields, the signer taken out of the future; ready is what
\* the poll returns and self the future after it
ConnectPoll(self) ==
    [ready |-> [poll |-> "Ready(Ok)",
                name_server |-> self.name_server,
                is_shutdown |-> FALSE,
                timeout |-> self.timeout,
                signer |-> self.signer,
                bind_addr |-> self.bind_addr],
     self |-> [self EXCEPT !.signer = "None"]]

\* what is recorded of a connect future: the constructor called, the
\* arguments given to it, and the future it returned, not polled yet
Constructed(constructor, given, future) ==
    [constructor |-> constructor, given |-> given, future |-> future, polls |-> <<>>]

NewCall(name_server) ==
    /\ connect' = Constructed("new", [name_server |-> name_server], New(name_server))
    /\ UNCHANGED <<sends, item, authority, lookup_object, seeded_rng, filtering, recv_buf>>

WithTimeoutCall(name_server, timeout) ==
    /\ connect' = Constructed("with_timeout",
                              [name_server |-> name_server, timeout |-> timeout],
                              WithTimeout(name_server, timeout))
    /\ UNCHANGED <<sends, item, authority, lookup_object, seeded_rng, filtering, recv_buf>>

WithBindAddrAndTimeoutCall(name_server, bind_addr, timeout) ==
    /\ connect' = Constructed("with_bind_addr_and_timeout",
                              [name_server |-> name_server, bind_addr |-> bind_addr,
                               timeout |-> timeout],
                              WithBindAddrAndTimeout(name_server, bind_addr, timeout))
    /\ UNCHANGED <<sends, item, authority, lookup_object, seeded_rng, filtering, recv_buf>>

WithTimeoutAndSignerCall(name_server, timeout, mf_signer) ==
    /\ connect' = Constructed("with_timeout_and_signer",
                              [name_server |-> name_server, timeout |-> timeout,
                               signer |-> mf_signer],
                              WithTimeoutAndSigner(name_server, timeout, mf_signer))
    /\ UNCHANGED <<sends, item, authority, lookup_object, seeded_rng, filtering, recv_buf>>

WithTimeoutAndSignerAndBindAddrCall(name_server, timeout, mf_signer, bind_addr) ==
    /\ connect' = Constructed("with_timeout_and_signer_and_bind_addr",
                              [name_server |-> name_server, timeout |-> timeout,
                               signer |-> mf_signer, bind_addr |-> bind_addr],
                              WithTimeoutAndSignerAndBindAddr(name_server, timeout,
                                                              mf_signer, bind_addr))
    /\ UNCHANGED <<sends, item, authority, lookup_object, seeded_rng, filtering, recv_buf>>

WithProviderCall(name_server, mf_signer, timeout) ==
    /\ connect' = Constructed("with_provider",
                              [name_server |-> name_server, signer |-> mf_signer,
                               timeout |-> timeout],
                              WithProvider(name_server, mf_signer, timeout))
    /\ UNCHANGED <<sends, item, authority, lookup_object, seeded_rng, filtering, recv_buf>>

\* the connect future is polled
ConnectPollCall ==
    /\ connect.constructor # "none"
    /\ Len(connect.polls) < MaxPolls
    /\ connect' = [connect EXCEPT !.future = ConnectPoll(connect.future).self,
                                  !.polls = Append(@, ConnectPoll(connect.future).ready)]
    /\ UNCHANGED <<sends, item, authority, lookup_object, seeded_rng, filtering, recv_buf>>

ConnectNext ==
    \/ \E name_server \in Addrs : NewCall(name_server)
    \/ \E name_server \in Addrs, timeout \in Timeouts : WithTimeoutCall(name_server, timeout)
    \/ \E name_server \in Addrs, bind_addr \in BindAddrs, timeout \in Timeouts :
          WithBindAddrAndTimeoutCall(name_server, bind_addr, timeout)
    \/ \E name_server \in Addrs, timeout \in Timeouts, mf_signer \in Signers :
          WithTimeoutAndSignerCall(name_server, timeout, mf_signer)
    \/ \E name_server \in Addrs, timeout \in Timeouts, mf_signer \in Signers,
          bind_addr \in BindAddrs :
          WithTimeoutAndSignerAndBindAddrCall(name_server, timeout, mf_signer, bind_addr)
    \/ \E name_server \in Addrs, mf_signer \in Signers, timeout \in Timeouts :
          WithProviderCall(name_server, mf_signer, timeout)
    \/ ConnectPollCall

ConnectSpec == Init /\ [][ConnectNext]_vars

\* ------------------------------------------------- SEEDED_RNG (no_std mode)

\* contexts that call the generator: tasks, interrupt handlers
Callers == {1, 2}

\* states of the generator (StdRng) and seeds (u64 in the code)
RngStates == 0..3

Seeds == {1, 2}

\* const_random!(u64): the seed fixed at compile time
ConstRandom == 3

\* StdRng::seed_from_u64
SeedFromU64(seed) == seed % 4

\* Rng::gen: the value drawn and the generator after it
Gen(value) == [out |-> value, next |-> (value * 3 + 1) % 4]

\* BorrowMut reached without critical_section::with around it
BorrowMutUnguarded(c) ==
    /\ seeded_rng.pc[c] \in {"called", "inside"}
    /\ seeded_rng' =
          IF seeded_rng.borrowed # {}
          THEN [seeded_rng EXCEPT !.panicked = TRUE]
          ELSE [seeded_rng EXCEPT !.borrowed = {c},
                                  !.pc[c] = "borrowed",
                                  !.init = TRUE,
                                  !.value = IF seeded_rng.init THEN @
                                            ELSE SeedFromU64(ConstRandom)]
    /\ UNCHANGED <<sends, item, authority, lookup_object, connect, filtering, recv_buf>>

\* pub(crate) fn random<T>() is called
RandomCall(c) ==
    /\ seeded_rng.pc[c] = "out"
    /\ c \notin seeded_rng.suspended
    /\ seeded_rng' = [seeded_rng EXCEPT !.pc[c] = "called", !.op[c] = "random"]
    /\ UNCHANGED <<sends, item, authority, lookup_object, connect, filtering, recv_buf>>

\* pub fn seed_rng(seed) is called
SeedRngCall(c, seed) ==
    /\ seeded_rng.pc[c] = "out"
    /\ c \notin seeded_rng.suspended
    /\ seeded_rng' = [seeded_rng EXCEPT !.pc[c] = "called", !.op[c] = "seed_rng",
                                        !.seed[c] = seed]
    /\ UNCHANGED <<sends, item, authority, lookup_object, connect, filtering, recv_buf>>

\* critical_section::with(|cs| ..): the closure starts once no other context
\* is inside a critical section
CriticalSectionWith(c) ==
    /\ seeded_rng.pc[c] = "called"
    /\ seeded_rng.holder = {}
    /\ seeded_rng' = [seeded_rng EXCEPT !.pc[c] = "inside", !.holder = {c}]
    /\ UNCHANGED <<sends, item, authority, lookup_object, connect, filtering, recv_buf>>

\* SEEDED_RNG.borrow(cs).borrow_mut() inside the closure: forces the Lazy at
\* the first access; RefCell::borrow_mut panics if the cell is borrowed
BorrowMut(c) ==
    /\ seeded_rng.pc[c] = "inside"
    /\ seeded_rng' =
          IF seeded_rng.borrowed # {}
          THEN [seeded_rng EXCEPT !.panicked = TRUE]
          ELSE [seeded_rng EXCEPT !.borrowed = {c},
                                  !.pc[c] = "borrowed",
                                  !.init = TRUE,
                                  !.value = IF seeded_rng.init THEN @
                                            ELSE SeedFromU64(ConstRandom)]
    /\ UNCHANGED <<sends, item, authority, lookup_object, connect, filtering, recv_buf>>

\* the access itself: .gen() in random, = StdRng::seed_from_u64(seed) in
\* seed_rng
Access(c) ==
    /\ seeded_rng.pc[c] = "borrowed"
    /\ seeded_rng' =
          IF seeded_rng.op[c] = "random"
          THEN [seeded_rng EXCEPT !.pc[c] = "accessed",
                                  !.out[c] = Gen(seeded_rng.value).out,
                                  !.value = Gen(seeded_rng.value).next]
          ELSE [seeded_rng EXCEPT !.pc[c] = "accessed",
                                  !.value = SeedFromU64(seeded_rng.seed[c])]
    /\ UNCHANGED <<sends, item, authority, lookup_object, connect, filtering, recv_buf>>

\* the closure ends: the RefMut is dropped, the critical section is left and
\* the call returns
Leave(c) ==
    /\ seeded_rng.pc[c] = "accessed"
    /\ seeded_rng' = [seeded_rng EXCEPT !.pc[c] = "out",
                                        !.op[c] = "none",
                                        !.borrowed = @ \ {c},
                                        !.holder = @ \ {c}]
    /\ UNCHANGED <<sends, item, authority, lookup_object, connect, filtering, recv_buf>>

\* a calling task is suspended at an await point of its own code; random
\* and seed_rng are not async and have none
Suspend(c) ==
    /\ seeded_rng.pc[c] = "out"
    /\ c \notin seeded_rng.suspended
    /\ seeded_rng' = [seeded_rng EXCEPT !.suspended = @ \cup {c}]
    /\ UNCHANGED <<sends, item, authority, lookup_object, connect, filtering, recv_buf>>

Resume(c) ==
    /\ c \in seeded_rng.suspended
    /\ seeded_rng' = [seeded_rng EXCEPT !.suspended = @ \ {c}]
    /\ UNCHANGED <<sends, item, authority, lookup_object, connect, filtering, recv_buf>>

RngNext ==
    \/ \E c \in Callers : RandomCall(c)
    \/ \E c \in Callers, seed \in Seeds : SeedRngCall(c, seed)
    \/ \E c \in Callers : CriticalSectionWith(c)
    \/ \E c \in Callers : BorrowMut(c)
    \/ \E c \in Callers : Access(c)
    \/ \E c \in Callers : Leave(c)
    \/ \E c \in Callers : Suspend(c)
    \/ \E c \in Callers : Resume(c)

RngSpec == Init /\ [][RngNext]_vars

\* ------------------------------------------- the loop body, filter by filter

\* the order in which the loop body applies the filters
FilterOrder == <<"source", "parse", "id", "question">>

\* send_serial_message_inner is entered with request msg: nothing read yet
EnterLoop(msg) ==
    /\ filtering.verdict = "idle"
    /\ filtering' = [filtering EXCEPT !.msg = msg, !.msg_id = msg[1], !.verdict = "next"]
    /\ UNCHANGED <<sends, item, authority, lookup_object, connect, seeded_rng, recv_buf>>

\* socket.recv_from returns datagram d at the top of the loop
LoopRecvFrom(d) ==
    /\ filtering.verdict \in {"next"} \cup Dropped
    /\ filtering.nread < MaxDgrams
    /\ filtering' = [filtering EXCEPT !.d = d, !.nread = @ + 1, !.checks = <<>>,
                                      !.verdict = "none"]
    /\ UNCHANGED <<sends, item, authority, lookup_object, connect, seeded_rng, recv_buf>>

\* what is recorded of a filter applied to the datagram: it dropped the
\* datagram (continue) or let it through
Checked(filter, dropped) ==
    [filtering EXCEPT !.checks = Append(@, filter),
                      !.verdict = IF dropped THEN filter ELSE @]

\* CheckId made at the top of the loop body, before the source is compared
CheckIdFirst ==
    /\ filtering.verdict = "none"
    /\ filtering.checks = <<>>
    /\ FromVec(filtering.d.bytes).ok
    /\ filtering' = Checked("id", filtering.msg_id # FromVec(filtering.d.bytes).id)
    /\ UNCHANGED <<sends, item, authority, lookup_object, connect, seeded_rng, recv_buf>>

\* if src.ip() != request_target.ip() || src.port() != request_target.port()
CheckSource ==
    /\ filtering.verdict = "none"
    /\ filtering.checks = <<>>
    /\ filtering' = Checked("source", SourceMismatch(filtering.d.src, NameServer))
    /\ UNCHANGED <<sends, item, authority, lookup_object, connect, seeded_rng, recv_buf>>

\* match Message::from_vec(&buffer): Err(e) => continue
Parse ==
    /\ filtering.verdict = "none"
    /\ filtering.checks = <<"source">>
    /\ filtering' = Checked("parse", ~FromVec(filtering.d.bytes).ok)
    /\ UNCHANGED <<sends, item, authority, lookup_object, connect, seeded_rng, recv_buf>>

\* if msg_id != message.id()
CheckId ==
    /\ filtering.verdict = "none"
    /\ filtering.checks = <<"source", "parse">>
    /\ filtering' = Checked("id", filtering.msg_id # FromVec(filtering.d.bytes).id)
    /\ UNCHANGED <<sends, item, authority, lookup_object, connect, seeded_rng, recv_buf>>

\* the request is parsed again and the question sections are compared; a
\* datagram that passes ends the loop
CheckQuestions ==
    LET request_message == FromVec(filtering.msg)
        message == FromVec(filtering.d.bytes)
    IN
    /\ filtering.verdict = "none"
    /\ filtering.checks = <<"source", "parse", "id">>
    /\ filtering' =
          IF ~request_message.ok THEN [filtering EXCEPT !.verdict = "request"]
          ELSE IF ~QueriesContained(message.queries, request_message.queries)
          THEN Checked("question", TRUE)
          ELSE [Checked("question", FALSE) EXCEPT !.verdict = "pass"]
    /\ UNCHANGED <<sends, item, authority, lookup_object, connect, seeded_rng, recv_buf>>

\* the future is resolved or dropped and another send's loop starts
LeaveLoop ==
    /\ filtering.verdict \notin {"idle", "none"}
    /\ filtering' = [msg |-> <<>>, msg_id |-> 0, nread |-> 0,
                     d |-> [src |-> [ip |-> 1, port |-> 53], bytes |-> <<>>],
                     checks |-> <<>>, verdict |-> "idle"]
    /\ UNCHANGED <<sends, item, authority, lookup_object, connect, seeded_rng, recv_buf>>

FilterNext ==
    \/ \E i \in IDs, qs \in RequestQueries : EnterLoop(ToVec([id |-> i, queries |-> qs]))
    \/ \E d \in Dgrams : LoopRecvFrom(d)
    \/ CheckSource
    \/ Parse
    \/ CheckId
    \/ CheckQuestions
    \/ LeaveLoop

FilterSpec == Init /\ [][FilterNext]_vars

\* -------------------------------------------------------- the receive buffer

\* crate::udp::MAX_RECEIVE_BUFFER_SIZE
MAX_RECEIVE_BUFFER_SIZE == 4096

\* values of message.max_payload() (u16) and lengths of datagrams on the wire
MaxPayloads == {512, 1232, 4095, 4096, 4097, 65535}

DgramLens == {0, 12, 512, 1232, 4096, 4097, 65535}

Min(a, b) == IF a <= b THEN a ELSE b

\* RecvBufSize that is the ceiling whatever the message advertises
RecvBufSizeCeiling(max_payload) == MAX_RECEIVE_BUFFER_SIZE

\* MAX_RECEIVE_BUFFER_SIZE.min(message.max_payload() as usize)
RecvBufSize(max_payload) == Min(MAX_RECEIVE_BUFFER_SIZE, max_payload % 65536)

\* send_message up to the bind: the message has max payload max_payload when
\* it is passed in; if it is finalized, the finalizer leaves it with max
\* payload finalized; the size is computed from the message as it is then
BufferSend(max_payload, signing, finalized) ==
    LET message == IF signing THEN finalized ELSE max_payload IN
    /\ recv_buf.stage = "idle"
    /\ recv_buf' = [stage |-> "sending", passed |-> max_payload,
                    finalized |-> signing, max_payload |-> message,
                    recv_buf_size |-> RecvBufSize(message), capacity |-> 0, len |-> 0]
    /\ UNCHANGED <<sends, item, authority, lookup_object, connect, seeded_rng, filtering>>

\* let mut recv_buf = vec![0; recv_buf_size]
BufferCreate ==
    /\ recv_buf.stage = "sending"
    /\ recv_buf' = [recv_buf EXCEPT !.stage = "loop", !.capacity = recv_buf.recv_buf_size]
    /\ UNCHANGED <<sends, item, authority, lookup_object, connect, seeded_rng, filtering>>

\* socket.recv_from(&mut recv_buf) reads a datagram of dgram_len bytes: at
\* most the buffer's length; buffer = recv_buf[0..len]
BufferRecvFrom(dgram_len) ==
    /\ recv_buf.stage = "loop"
    /\ recv_buf' = [recv_buf EXCEPT !.len = Min(dgram_len, recv_buf.capacity)]
    /\ UNCHANGED <<sends, item, authority, lookup_object, connect, seeded_rng, filtering>>

\* the future resolves or is dropped
BufferDrop ==
    /\ recv_buf.stage # "idle"
    /\ recv_buf' = [stage |-> "idle", passed |-> 0, finalized |-> FALSE,
                    max_payload |-> 0, recv_buf_size |-> 0,
                    capacity |-> 0, len |-> 0]
    /\ UNCHANGED <<sends, item, authority, lookup_object, connect, seeded_rng, filtering>>

BufferNext ==
    \/ \E max_payload \in MaxPayloads, signing \in BOOLEAN, finalized \in MaxPayloads :
          BufferSend(max_payload, signing, finalized)
    \/ BufferCreate
    \/ \E dgram_len \in DgramLens : BufferRecvFrom(dgram_len)
    \/ BufferDrop

BufferSpec == Init /\ [][BufferNext]_vars

\* -------------------------------------------------------------- properties

\* the id in the request that slot f's send put on the wire
SentId(f) == request[f][1]

\* the question set of the request that slot f's send put on the wire
SentQuestions(f) == {request[f][i] : i \in 2..Len(request[f])}

\* datagram d comes from the queried peer: same IP and same port
FromPeer(d) == d.src.ip = NameServer.ip /\ d.src.port = NameServer.port

\* datagram d comes from the peer, decodes and carries the id slot f's send
\* sent
MatchesSend(f, d) ==
    /\ FromPeer(d)
    /\ LET message == FromVec(d.bytes) IN message.ok /\ message.id = SentId(f)

\* every question of datagram d is one of the request slot f's send sent
QuestionsOfRequest(f, d) ==
    LET response_queries == FromVec(d.bytes).queries
        request_queries == SentQuestions(f)
    IN  \A i \in 1..Len(response_queries) : response_queries[i] \in request_queries

\* datagram d passes the four filters of slot f's send: source, parse, id,
\* question
PassesAll(f, d) == MatchesSend(f, d) /\ QuestionsOfRequest(f, d)

\* the requests a send can put on the wire
Requests == {ToVec([id |-> i, queries |-> qs]) : i \in IDs, qs \in RequestQueries}

\* for each request, the datagrams that come from the peer, decode and carry
\* the request's id
Matching ==
    [r \in Requests |->
        {x : x \in {d \in Dgrams :
                      FromPeer(d) /\ FromVec(d.bytes).ok /\ FromVec(d.bytes).id = r[1]}}]

\* for each request, the datagrams that pass the four filters of a send of
\* that request
Passing ==
    [r \in Requests |->
        {x : x \in {d \in Matching[r] :
                      \A i \in 1..Len(FromVec(d.bytes).queries) :
                          \E j \in 2..Len(r) : r[j] = FromVec(d.bytes).queries[i]}}]

\* this step is an iteration of the loop of slot f's send
ReadStep(f) == pc[f] = "recv_from" /\ nread'[f] # nread[f]

\* this step is an iteration of the loop of slot f's send over datagram d
Reads(f, d) ==
    \E accept \in (IF verifier[f] THEN BOOLEAN ELSE {TRUE}) : RecvFrom(f, d, accept)

\* the datagram d as recorded when slot f's future read it
Read(f, d) == [sock |-> socket[f], src |-> d.src, bytes |-> d.bytes]

\* C1: a delivered response has the id that was sent, only questions of the
\* request, and came in a datagram whose source IP and port are the peer's.
C1_ResponseMatchesQuery ==
    \A f \in Slots :
        outcome[f].kind = "response" =>
            /\ outcome[f].id = SentId(f)
            /\ \A i \in 1..Len(outcome[f].queries) :
                  outcome[f].queries[i] \in SentQuestions(f)
            /\ delivered[f].src.ip = NameServer.ip
            /\ delivered[f].src.port = NameServer.port
            /\ delivered[f].bytes = outcome[f].buffer

\* a response was delivered after another datagram had been dropped
C1_Witness ==
    \E f \in Slots : outcome[f].kind = "response" /\ nread[f] = 2

\* errors that resolve a send without a datagram having been accepted
NoDatagramErrors ==
    {Error(e) : e \in {"epoch", "signer", "serialize", "bind", "io", "short", "timeout"}}

\* C2: a datagram that fails one of the four filters is dropped silently: no
\* send is ever resolved, with a response or with an error, by a datagram
\* that fails a filter.  Whatever was read before, a send in the loop is
\* pending with its socket open, a send resolved by a datagram was resolved
\* by one that passes all four filters, and a send resolved otherwise holds
\* an error that no datagram caused.
C2_FailingDatagramDropped ==
    \A f \in Slots :
        /\ pc[f] = "recv_from" => outcome[f] = Pending /\ socket[f] \in open
        /\ (pc[f] = "done" /\ delivered[f] # NoDgram) => PassesAll(f, delivered[f])
        /\ (pc[f] = "done" /\ delivered[f] = NoDgram) => outcome[f] \in NoDatagramErrors

\* a send is still reading after MaxDgrams datagrams, all dropped
C2_Witness ==
    \E f \in Slots :
        /\ pc[f] = "recv_from" /\ nread[f] = MaxDgrams
        /\ outcome[f] = Pending /\ socket[f] \in open

\* C3: a send resolves on the first datagram that passes the four filters:
\* reading a passing datagram always resolves the send, with that datagram,
\* however many were dropped before; a read that resolves the send read a
\* passing datagram; and a resolved send reads no further datagram.
C3_FirstPassingWins ==
    [][\A f \in Slots :
          /\ ReadStep(f) => \A d \in Passing[request[f]] :
                \/ pc'[f] = "done" /\ delivered'[f] = Read(f, d)
                \/ ~Reads(f, d)
          /\ (ReadStep(f) /\ pc'[f] = "done") => PassesAll(f, delivered'[f])
          /\ (pc[f] = "done" /\ pc'[f] = "done") =>
                (nread'[f] = nread[f] /\ delivered'[f] = delivered[f])]_vars

\* the peer's answer was delivered as the second datagram read, after a
\* datagram that was dropped
C3_Witness ==
    \E f \in Slots :
        /\ outcome[f].kind = "response"
        /\ nread[f] = 2
        /\ delivered[f].src = NameServer
        /\ delivered[f].bytes = request[f]

\* C4: a send in the receive loop is eventually resolved, and it is resolved
\* by the timeout unless an I/O error occurred or a datagram passing the four
\* filters arrived: datagrams that fail a filter neither resolve it nor keep
\* the timeout from firing.  At no time is a send that read datagrams and
\* was resolved by none of them resolved by anything but the timeout or an
\* I/O error.
C4_TimeoutEndsLoop ==
    /\ \A f \in Slots :
          (pc[f] = "recv_from") ~>
              (/\ pc[f] = "done"
               /\ \/ outcome[f] = Error("timeout")
                  \/ outcome[f] = Error("io")
                  \/ delivered[f] # NoDgram /\ PassesAll(f, delivered[f]))
    /\ [](\A f \in Slots :
            (pc[f] = "done" /\ nread[f] > 0 /\ delivered[f] = NoDgram) =>
                outcome[f] \in {Error("timeout"), Error("io")})

\* the timeout resolved a send that had read MaxDgrams datagrams and
\* dropped them all
C4_Witness ==
    \E f \in Slots :
        /\ outcome[f] = Error("timeout")
        /\ nread[f] = MaxDgrams
        /\ socket[f] # 0

\* C5: a send binds one socket, at its bind step, and that socket is one no
\* send has bound before (the sockets bound so far are 1..nsockets) and no
\* other send holds; a send keeps its socket for as long as its result is
\* not taken.
C5_OwnNewSocket ==
    [][\A f \in Slots :
          /\ socket'[f] # socket[f] =>
                \/ /\ pc[f] = "bind" /\ socket[f] = 0 /\ pc'[f] = "send_to"
                   /\ socket'[f] \notin 0..nsockets
                   /\ nsockets' = nsockets + 1
                   /\ \A g \in Slots \ {f} : socket'[g] # socket'[f]
                \/ pc[f] = "done" /\ pc'[f] = "idle" /\ socket'[f] = 0
          /\ (pc[f] = "bind" /\ pc'[f] = "send_to") => socket'[f] # socket[f]
          /\ pc'[f] \in {"send_to", "recv_from"} => socket'[f] \in open']_vars

\* the stream has bound MaxSends sockets, one for each of its sends
C5_Witness ==
    /\ nsockets = MaxSends
    /\ nsends = MaxSends
    /\ \E f \in Slots : socket[f] = MaxSends

\* C6: once the stream is shut down it stays so, and send_message then does
\* nothing but panic: no send is accepted, no slot gets a future, an id, a
\* verifier or a socket, and the step that panics changes nothing else.
C6_NoSendAfterShutdown ==
    [][/\ is_shutdown =>
            /\ is_shutdown'
            /\ nsends' = nsends
            /\ \A f \in Slots : pc[f] = "idle" =>
                  /\ pc'[f] = "idle" /\ msg_id'[f] = 0 /\ request'[f] = <<>>
                  /\ verifier'[f] = FALSE /\ socket'[f] = 0
                  /\ outcome'[f] = Pending
       /\ panicked' # panicked =>
            /\ is_shutdown /\ panicked'
            /\ UNCHANGED <<is_shutdown, signer, nsends, pc, msg_id, request,
                           verifier, socket, nsockets, open, nread, vcalls,
                           outcome, delivered>>]_vars

\* a send was refused on a shut-down stream that had a free slot and sends
\* left
C6_Witness ==
    /\ is_shutdown /\ panicked
    /\ nsends < MaxSends
    /\ \E f \in Slots : pc[f] = "idle"

\* C7: sends in flight at once have sockets of their own and carry the id
\* drawn for them, and a send is only ever resolved by a datagram read from
\* its own socket, which is no other send's socket.
C7_OwnResponses ==
    \A f \in Slots :
        /\ pc[f] \in {"send_to", "recv_from"} =>
              /\ socket[f] \in open
              /\ SentId(f) = msg_id[f]
              /\ \A g \in Slots \ {f} : socket[g] # socket[f]
        /\ delivered[f] # NoDgram =>
              /\ delivered[f].sock = socket[f]
              /\ \A g \in Slots \ {f} : socket[g] # delivered[f].sock

\* two sends with the same id were in flight at once; the one that bound its
\* socket later got its response while the other was still reading
C7_Witness ==
    \E f \in Slots, g \in Slots :
        /\ f # g
        /\ outcome[g].kind = "response"
        /\ pc[f] = "recv_from" /\ nread[f] = 1
        /\ socket[g] > socket[f]
        /\ msg_id[f] = msg_id[g]

\* C8: the question filter is a one-way containment.  A datagram from the
\* peer that decodes and carries the sent id resolves the send when each of
\* its questions is a question of the request, also when it has fewer
\* questions or none, and is dropped when one of its questions is not.
C8_QuestionSubset ==
    [][\A f \in Slots :
          ReadStep(f) => \A d \in Matching[request[f]] :
              \/ IF QuestionsOfRequest(f, d)
                 THEN pc'[f] = "done" /\ delivered'[f] = Read(f, d)
                 ELSE /\ pc'[f] = "recv_from" /\ outcome'[f] = Pending
                      /\ delivered'[f] = NoDgram
              \/ ~Reads(f, d)]_vars

\* a response with fewer questions than the request was delivered
C8_Witness ==
    \E f \in Slots :
        /\ outcome[f].kind = "response"
        /\ Len(outcome[f].queries) < Len(request[f]) - 1

\* C9: the timeout can fire in each of the three phases it wraps (bind,
\* send_to, receive loop) and then resolves the send with the timeout error;
\* a send has an outcome exactly when it is resolved, and the outcome of a
\* resolved send does not change.
C9_TimeoutBoundsSend ==
    [][\A f \in Slots :
          /\ pc[f] \in InFlight => ENABLED Timeout(f)
          /\ Timeout(f) => pc'[f] = "done" /\ outcome'[f] = Error("timeout")
          /\ (pc[f] = "done") <=> (outcome[f] # Pending)
          /\ (pc'[f] = "done") <=> (outcome'[f] # Pending)
          /\ (pc[f] = "done" /\ pc'[f] = "done") => outcome'[f] = outcome[f]
          /\ pc[f] = "done" => pc'[f] \in {"done", "idle"}]_vars

\* the timeout fired before the send had bound its socket
C9_Witness ==
    \E f \in Slots : outcome[f] = Error("timeout") /\ socket[f] = 0 /\ request[f] # <<>>

\* C10 as stated: the verifier is invoked, once, on the first datagram that
\* comes from the peer, decodes and carries the sent id (here: the first
\* datagram the send reads is such a datagram).
C10_VerifierOnFirstMatching ==
    [][\A f \in Slots :
          (ReadStep(f) /\ verifier[f] /\ nread[f] = 0) =>
              \A d \in Matching[request[f]] : Reads(f, d) => vcalls'[f] = 1]_vars

\* C10: the verifier of a send is invoked at most once, on the first
\* datagram that passes the four filters, the question filter included, and
\* with that datagram's bytes; what it returns is the send's outcome, in
\* place of the response decoded from the datagram.  A datagram that fails a
\* filter does not reach the verifier.
C10_VerifierOnFirstPassing ==
    [][\A f \in Slots :
          /\ vcalls'[f] <= 1
          /\ (ReadStep(f) /\ verifier[f]) =>
                /\ \A d \in Passing[request[f]], accept \in BOOLEAN :
                      RecvFrom(f, d, accept) =>
                          /\ vcalls[f] = 0 /\ vcalls'[f] = 1
                          /\ delivered'[f] = Read(f, d)
                          /\ outcome'[f] = Verify(d.bytes, accept)
                /\ \A d \in Matching[request[f]] \ Passing[request[f]] :
                      Reads(f, d) => vcalls'[f] = vcalls[f] /\ outcome'[f] = Pending
                /\ (vcalls'[f] # vcalls[f] \/ pc'[f] = "done") =>
                      PassesAll(f, delivered'[f])
          /\ (ReadStep(f) /\ ~verifier[f]) => vcalls'[f] = 0]_vars

\* the verifier rejected the peer's answer, which came after a datagram
\* that was dropped
C10_Witness ==
    \E f \in Slots :
        /\ verifier[f] /\ vcalls[f] = 1 /\ nread[f] = 2
        /\ outcome[f] = Error("verifier")
        /\ delivered[f].bytes = request[f]

\* this step is a send_message call that put its response future in slot f
SendStep(f) == pc[f] = "idle" /\ pc'[f] # "idle"

\* the errors send_message returns before it builds the future
PreSendErrors == {Error("epoch"), Error("signer"), Error("serialize")}

\* C11: finalize is called only when the stream has a signer and the signer
\* said yes to should_finalize_message: a send_message call without a signer,
\* or whose signer declined, attaches no verifier and returns no signer
\* error, whatever finalize would have answered; a verifier is only ever
\* attached on a stream with a signer; and a send without a verifier that a
\* datagram resolved holds the default response, the message decoded from
\* that datagram with its bytes, the verifier never having run.
C11_FinalizeOnlyWhenAsked ==
    [][\A f \in Slots :
          /\ verifier[f] => signer
          /\ SendStep(f) =>
                \A id \in IDs, queries \in RequestQueries, clock_ok \in BOOLEAN,
                   should_finalize \in BOOLEAN,
                   finalize \in {"err", "none", "verifier"}, to_vec_ok \in BOOLEAN :
                   SendMessage(id, queries, clock_ok, should_finalize, finalize, to_vec_ok) =>
                       \/ signer /\ should_finalize
                       \/ ~verifier'[f] /\ outcome'[f] # Error("signer")
          /\ (pc[f] = "done" /\ ~verifier[f] /\ delivered[f] # NoDgram) =>
                /\ outcome[f] = DnsResponse(FromVec(delivered[f].bytes), delivered[f].bytes)
                /\ vcalls[f] = 0]_vars

\* on a stream with a signer, a send without a verifier got the default
\* response
C11_Witness ==
    \E f \in Slots :
        /\ signer /\ ~verifier[f] /\ vcalls[f] = 0
        /\ outcome[f].kind = "response"
        /\ outcome[f].buffer = delivered[f].bytes

\* C12: when the verifier rejects the datagram that passed the four filters,
\* the send resolves with the verifier's error at that iteration; the send
\* that holds this error is resolved, its socket closed, by a datagram that
\* passed the filters, and reads nothing more: its outcome stays the error
\* until the caller takes it.
C12_RejectionReturned ==
    [][\A f \in Slots :
          /\ (ReadStep(f) /\ verifier[f]) => \A d \in Passing[request[f]] :
                \/ pc'[f] = "done" /\ outcome'[f] = Error("verifier")
                \/ ~RecvFrom(f, d, FALSE)
          /\ outcome[f] = Error("verifier") =>
                /\ pc[f] = "done" /\ socket[f] \notin open
                /\ vcalls[f] = 1
                /\ PassesAll(f, delivered[f])
                /\ pc'[f] \in {"done", "idle"}
                /\ pc'[f] = "done" => (outcome'[f] = outcome[f] /\ nread'[f] = nread[f])]_vars

\* the verifier rejected the first datagram the send read, with reads left
C12_Witness ==
    \E f \in Slots :
        /\ outcome[f] = Error("verifier")
        /\ nread[f] = 1
        /\ nread[f] < MaxDgrams

\* C13: a send_message call whose clock is before the epoch, whose finalize
\* fails or whose message does not serialize returns that error as its
\* response stream at once: the call binds no socket and opens none, no
\* request is put on the wire, and the slot never gets a socket or reads a
\* datagram afterwards.
C13_PreSendFailure ==
    [][\A f \in Slots :
          /\ SendStep(f) =>
                \A id \in IDs, queries \in RequestQueries, clock_ok \in BOOLEAN,
                   should_finalize \in BOOLEAN,
                   finalize \in {"err", "none", "verifier"}, to_vec_ok \in BOOLEAN :
                   (/\ SendMessage(id, queries, clock_ok, should_finalize, finalize, to_vec_ok)
                    /\ \/ ~clock_ok
                       \/ signer /\ should_finalize /\ finalize = "err"
                       \/ ~to_vec_ok) =>
                       /\ pc'[f] = "done"
                       /\ outcome'[f] =
                             IF ~clock_ok THEN Error("epoch")
                             ELSE IF signer /\ should_finalize /\ finalize = "err"
                                  THEN Error("signer")
                                  ELSE Error("serialize")
                       /\ socket'[f] = 0 /\ request'[f] = <<>>
                       /\ nsockets' = nsockets /\ open' = open
          /\ outcome[f] \in PreSendErrors =>
                /\ pc[f] = "done" /\ socket[f] = 0 /\ nread[f] = 0
                /\ request[f] = <<>> /\ delivered[f] = NoDgram
                /\ pc'[f] \in {"done", "idle"}
                /\ socket'[f] = 0 /\ nread'[f] = 0]_vars

\* two calls failed before sending, one at the signer and one at the clock,
\* and the stream has bound no socket
C13_Witness ==
    /\ nsockets = 0
    /\ \E f \in Slots, g \in Slots :
          outcome[f] = Error("signer") /\ outcome[g] = Error("epoch")

\* C14: an I/O error of the bind, of send_to or of a recv_from resolves the
\* send with that error at that step; recv_from can fail at any iteration; a
\* send that holds an I/O error is resolved, its socket closed, and its
\* outcome stays that error until the caller takes it.
C14_IoErrorsSurface ==
    [][\A f \in Slots :
          /\ Bind(f, FALSE) => pc'[f] = "done" /\ outcome'[f] = Error("bind")
          /\ SendTo(f, -1) => pc'[f] = "done" /\ outcome'[f] = Error("io")
          /\ RecvError(f) => pc'[f] = "done" /\ outcome'[f] = Error("io")
          /\ pc[f] = "bind" => ENABLED Bind(f, FALSE)
          /\ pc[f] = "send_to" => ENABLED SendTo(f, -1)
          /\ pc[f] = "recv_from" => ENABLED RecvError(f)
          /\ outcome[f] \in {Error("bind"), Error("io")} =>
                /\ pc[f] = "done" /\ socket[f] \notin open
                /\ delivered[f] = NoDgram
                /\ pc'[f] \in {"done", "idle"}
                /\ pc'[f] = "done" => outcome'[f] = outcome[f]]_vars

\* recv_from failed after the send had dropped a datagram
C14_Witness ==
    \E f \in Slots :
        outcome[f] = Error("io") /\ nread[f] >= 1 /\ socket[f] # 0

\* C15: a send passes the send_to call once.  Its future goes from the bind
\* to send_to, from send_to to the loop or to its end, and from the loop to
\* its end only: no dropped datagram, error or timeout brings it back to
\* send_to or to the bind, and a send_to call always leaves send_to.
C15_NoRetry ==
    [][\A f \in Slots :
          /\ pc'[f] = "bind" => pc[f] \in {"idle", "bind"}
          /\ pc'[f] = "send_to" => pc[f] \in {"bind", "send_to"}
          /\ pc[f] = "send_to" => pc'[f] \in {"send_to", "recv_from", "done"}
          /\ pc[f] = "recv_from" => pc'[f] \in {"recv_from", "done"}
          /\ pc[f] = "done" => pc'[f] \in {"done", "idle"}
          /\ pc[f] = "send_to" =>
                \A len_sent \in {-1, Len(request[f]) - 1, Len(request[f])} :
                    SendTo(f, len_sent) => pc'[f] \in {"recv_from", "done"}]_vars

\* one send timed out after dropping datagrams while another is still in
\* the loop after MaxDgrams dropped datagrams
C15_Witness ==
    \E f \in Slots, g \in Slots :
        /\ pc[f] = "recv_from" /\ nread[f] = MaxDgrams
        /\ outcome[g] = Error("timeout") /\ nread[g] >= 1

\* C16: when send_to reports fewer bytes than the request has, the send
\* resolves with the short-send error at that step, without having read a
\* datagram, and reads none afterwards.
C16_ShortSend ==
    [][\A f \in Slots :
          /\ pc[f] = "send_to" =>
                (SendTo(f, Len(request[f]) - 1) =>
                    /\ pc'[f] = "done" /\ outcome'[f] = Error("short")
                    /\ nread'[f] = 0 /\ socket[f] \notin open')
          /\ outcome[f] = Error("short") =>
                /\ pc[f] = "done" /\ nread[f] = 0 /\ delivered[f] = NoDgram
                /\ socket[f] # 0 /\ socket[f] \notin open
                /\ pc'[f] \in {"done", "idle"}
                /\ nread'[f] = 0]_vars

\* a send ended on a short send, on the socket it had bound
C16_Witness ==
    \E f \in Slots :
        outcome[f] = Error("short") /\ socket[f] # 0 /\ Len(request[f]) > 1

\* C17: a poll of the stream yields the alive item Some(Ok(())) in every
\* state where the stream is not shut down and the end of the stream None in
\* every state where it is; no step of the stream, of its sends or of a poll
\* clears is_shutdown, so after shutdown a poll never yields the alive item
\* again.
C17_PollUntilShutdown ==
    [][/\ is_shutdown => is_shutdown'
       /\ (PollItem(is_shutdown) = "None") <=> is_shutdown
       /\ (PollItem(is_shutdown) = "Some(Ok(()))") <=> ~is_shutdown
       /\ PollNext => item' = IF is_shutdown THEN "None" ELSE "Some(Ok(()))"
       /\ item' # item => item' = PollItem(is_shutdown)
       /\ (is_shutdown /\ item' # item) => item' = "None"]_vars

\* the stream was polled to its end after shutdown, with a send in flight
C17_Witness ==
    /\ is_shutdown
    /\ item = "None"
    /\ \E f \in Slots : pc[f] \in InFlight

\* the operations of the boxed authority that forward to the backend
ForwardingOps == {"lookup", "search", "get_nsec_records", "get_nsec3_records"}

\* C18: lookup, search, get_nsec_records and get_nsec3_records of the boxed
\* authority call the backend's operation of the same name with the
\* arguments they were given and return the backend's answer with its
\* control-flow variant unchanged (Continue, Break or Skip), an Ok result
\* still Ok and holding the backend's lookup boxed, an error still the same
\* error.
C18_ControlFlowPreserved ==
    authority.op \in ForwardingOps =>
        LET call == authority.out.call
            answer == authority.out.answer
            returned == authority.out.returned
            args == authority.args
        IN  /\ call.op = authority.op
            /\ call.options = args[Len(args)]
            /\ authority.op = "lookup" => call.name = args[1] /\ call.rtype = args[2]
            /\ authority.op = "search" => call.request_info = args[1]
            /\ authority.op = "get_nsec_records" => call.name = args[1]
            /\ authority.op = "get_nsec3_records" => call.info = args[1]
            /\ returned.variant = answer.variant
            /\ answer.variant = "Skip" => returned = answer
            /\ answer.variant # "Skip" =>
                  /\ returned.ok = answer.ok
                  /\ answer.ok => returned.lookup = [boxed |-> answer.lookup]
                  /\ ~answer.ok => returned.error = answer.error

\* a lookup whose backend answered Break with an error
C18_Witness ==
    /\ authority.op = "lookup"
    /\ authority.out.answer.variant = "Break"
    /\ ~authority.out.answer.ok
    /\ authority.out.returned = authority.out.answer

\* C19: ns(options) is lookup(origin, NS, options) and soa_secure(options)
\* is lookup(origin, SOA, options): each makes that one call on the backend,
\* with the caller's options, and returns what that lookup returns, variant
\* and error included.
C19_ConvenienceIsLookup ==
    /\ authority.op = "ns" =>
          /\ authority.out.call =
                [op |-> "lookup", name |-> Origin, rtype |-> "NS",
                 options |-> authority.args[1]]
          /\ authority.out =
                AuthorityObjectLookup(Origin, "NS", authority.args[1], authority.out.answer)
    /\ authority.op = "soa_secure" =>
          /\ authority.out.call =
                [op |-> "lookup", name |-> Origin, rtype |-> "SOA",
                 options |-> authority.args[1]]
          /\ authority.out =
                AuthorityObjectLookup(Origin, "SOA", authority.args[1], authority.out.answer)

\* ns called with the DNSSEC-OK bit set returned the backend's error
C19_Witness ==
    /\ authority.op = "ns"
    /\ authority.args[1].dnssec_ok
    /\ authority.out.answer.variant = "Break"
    /\ ~authority.out.answer.ok
    /\ authority.out.returned.error = authority.out.answer.error

\* C20: soa() looks up (origin, SOA) with the default lookup options, the
\* DNSSEC-OK bit unset, whatever the options of the request being served;
\* soa_secure(options) looks up (origin, SOA) with the options it was given,
\* DNSSEC-OK bit included.
C20_SoaUnsigned ==
    /\ authority.op = "soa" =>
          /\ authority.out.call.op = "lookup"
          /\ authority.out.call.name = Origin
          /\ authority.out.call.rtype = "SOA"
          /\ authority.out.call.options = LookupOptionsDefault
          /\ ~authority.out.call.options.dnssec_ok
    /\ authority.op = "soa_secure" =>
          /\ authority.out.call.rtype = "SOA"
          /\ authority.out.call.options.dnssec_ok = authority.args[1].dnssec_ok

\* soa() was called while a request with the DNSSEC-OK bit set was served
C20_Witness ==
    /\ authority.op = "soa"
    /\ authority.request_options.dnssec_ok
    /\ ~authority.out.call.options.dnssec_ok

\* indices of the take_additionals calls made on the lookup object
TakeCalls == {i \in 1..Len(lookup_object.log) : lookup_object.log[i].op = "take_additionals"}

\* C21: of the take_additionals calls made on one lookup object at most one
\* returns a chained lookup; every call after the first returns none.
C21_AdditionalsAtMostOnce ==
    /\ Cardinality({i \in TakeCalls : lookup_object.log[i].ret # "None"}) <= 1
    /\ \A i \in TakeCalls, j \in TakeCalls : i < j => lookup_object.log[j].ret = "None"

\* a lookup handed out its chained lookup at the first call and none at the
\* second
C21_Witness ==
    \E i \in TakeCalls, j \in TakeCalls :
        i < j /\ lookup_object.log[i].ret = "Some" /\ lookup_object.log[j].ret = "None"

\* C22: whatever was called on an EmptyLookup before, it is unchanged,
\* is_empty() is true, iter() yields no record, take_additionals() returns
\* none and dnssec_summary() is Insecure; every call made so far returned
\* just that.
C22_EmptyLookupConstant ==
    lookup_object.object.kind = "EmptyLookup" =>
        /\ lookup_object.object = EmptyLookup
        /\ IsEmpty(lookup_object.object)
        /\ Cardinality(Iter(lookup_object.object)) = 0
        /\ TakeAdditionals(lookup_object.object).ret = "None"
        /\ TakeAdditionals(lookup_object.object).self = EmptyLookup
        /\ DnssecSummary(lookup_object.object) = "Insecure"
        /\ \A i \in 1..Len(lookup_object.log) :
              LET call == lookup_object.log[i] IN
              /\ call.op = "is_empty" => call.ret = TRUE
              /\ call.op = "iter" => call.ret = {}
              /\ call.op = "take_additionals" => call.ret = "None"
              /\ call.op = "dnssec_summary" => call.ret = "Insecure"

\* an EmptyLookup after take_additionals, iter and is_empty were called on it
C22_Witness ==
    /\ lookup_object.object.kind = "EmptyLookup"
    /\ Len(lookup_object.log) = 3
    /\ lookup_object.log[1].op = "take_additionals"
    /\ lookup_object.log[2].op = "iter"
    /\ lookup_object.log[3].op = "is_empty"

\* the configuration the constructor called is to give the stream: the
\* arguments given, 5 seconds where no timeout is, none where no bind
\* address or signer is
ConfigAsked ==
    LET given == connect.given
        has(field) == field \in DOMAIN given
    IN  [name_server |-> given.name_server,
         timeout |-> IF has("timeout") THEN given.timeout ELSE 5,
         bind_addr |-> IF has("bind_addr") THEN given.bind_addr ELSE NoBindAddr,
         signer |-> IF has("signer") THEN given.signer ELSE "None"]

\* the configuration of a stream a poll yielded
ConfigOf(stream) ==
    [name_server |-> stream.name_server, timeout |-> stream.timeout,
     bind_addr |-> stream.bind_addr, signer |-> stream.signer]

\* C23: the first poll of the connect future any constructor returns is
\* ready with a stream that is not shut down and has the peer, timeout, bind
\* address and signer given to the constructor; new gives 5 seconds, no bind
\* address and no signer; with_timeout and with_timeout_and_signer give no
\* bind address.
C23_ConnectReady ==
    Len(connect.polls) >= 1 =>
        LET stream == connect.polls[1] IN
        /\ stream.poll = "Ready(Ok)"
        /\ ~stream.is_shutdown
        /\ ConfigOf(stream) = ConfigAsked
        /\ connect.constructor = "new" =>
              stream.timeout = 5 /\ stream.bind_addr = NoBindAddr /\ stream.signer = "None"
        /\ connect.constructor \in {"with_timeout", "with_timeout_and_signer"} =>
              stream.bind_addr = NoBindAddr

\* the future of with_timeout_and_signer_and_bind_addr, given a signer and a
\* bind address, was polled
C23_Witness ==
    /\ connect.constructor = "with_timeout_and_signer_and_bind_addr"
    /\ Len(connect.polls) = 1
    /\ connect.polls[1].signer = "Some"
    /\ connect.polls[1].bind_addr.some
    /\ connect.polls[1].timeout = 30

\* callers that hold a mutable borrow of the generator or are past it
Accessing == {c \in Callers : seeded_rng.pc[c] \in {"borrowed", "accessed"}}

\* C24: in no_std mode the generator is read, advanced or reseeded only by
\* a caller inside the critical section; at most one caller is inside it,
\* so no two accesses overlap and borrow_mut never finds the cell borrowed;
\* a caller inside it is never suspended and never starts another random()
\* or seed_rng() before it has left.
C24_CriticalSection ==
    /\ [](/\ Cardinality(seeded_rng.holder) <= 1
          /\ Cardinality(Accessing) <= 1
          /\ Accessing \subseteq seeded_rng.holder
          /\ seeded_rng.borrowed \subseteq seeded_rng.holder
          /\ seeded_rng.holder \cap seeded_rng.suspended = {}
          /\ ~seeded_rng.panicked)
    /\ [][/\ (seeded_rng'.value # seeded_rng.value \/ seeded_rng'.init # seeded_rng.init) =>
               \E c \in seeded_rng.holder :
                  /\ seeded_rng.holder = {c}
                  /\ seeded_rng'.holder = {c}
                  /\ \A o \in Callers \ {c} : seeded_rng'.pc[o] = seeded_rng.pc[o]
          /\ \A c \in seeded_rng.holder :
                  /\ seeded_rng'.pc[c] # "called"
                  /\ c \notin seeded_rng'.suspended]_vars

\* one caller reseeds the generator inside the critical section while the
\* other has called random() and waits to enter
C24_Witness ==
    /\ seeded_rng.pc[1] = "accessed"
    /\ seeded_rng.op[1] = "seed_rng"
    /\ seeded_rng.pc[2] = "called"
    /\ seeded_rng.op[2] = "random"
    /\ seeded_rng.out[2] # 0

\* the filters applied to the datagram in hand are the first n of the order
IsPrefixOfOrder(checks) ==
    /\ Len(checks) <= Len(FilterOrder)
    /\ \A k \in 1..Len(checks) : checks[k] = FilterOrder[k]

\* C25: the filters applied to a datagram are, in this order, source, parse,
\* id, question, each applied only if those before it let the datagram
\* through; the datagram is dropped by the first that fails, none is applied
\* after it; a datagram from a wrong source has had the source filter
\* applied and nothing else, and a datagram dropped for its id has not had
\* its questions compared.  The filter that drops it is the one the loop
\* body as a whole drops it by.
C25_FilterOrder ==
    /\ IsPrefixOfOrder(filtering.checks)
    /\ filtering.verdict \in Dropped =>
          /\ filtering.checks[Len(filtering.checks)] = filtering.verdict
          /\ \A k \in 1..Len(filtering.checks) - 1 : filtering.checks[k] # filtering.verdict
          /\ filtering.verdict =
                Filter(filtering.msg, NameServer, filtering.msg_id, filtering.d)
    /\ filtering.verdict = "pass" =>
          /\ filtering.checks = FilterOrder
          /\ Filter(filtering.msg, NameServer, filtering.msg_id, filtering.d) = "pass"
    /\ (filtering.verdict # "idle" /\ SourceMismatch(filtering.d.src, NameServer)) =>
          /\ filtering.checks \in {<<>>, <<"source">>}
          /\ filtering.verdict \in {"none", "source"}
    /\ filtering.verdict = "id" => filtering.checks = <<"source", "parse", "id">>

\* a datagram from the peer with a wrong id and a question the request did
\* not ask was dropped for its id
C25_Witness ==
    /\ filtering.verdict = "id"
    /\ ~QueriesContained(FromVec(filtering.d.bytes).queries, FromVec(filtering.msg).queries)
    /\ filtering.nread = 2

\* C26: the receive buffer of a send has size
\* min(MAX_RECEIVE_BUFFER_SIZE, max_payload) for the max payload of the
\* message as it is after finalization: never above the ceiling, never above
\* what the request advertises; the buffer is created with that length and
\* no read returns more.
C26_RecvBufSize ==
    recv_buf.stage # "idle" =>
        /\ recv_buf.recv_buf_size =
              IF MAX_RECEIVE_BUFFER_SIZE <= recv_buf.max_payload
              THEN MAX_RECEIVE_BUFFER_SIZE ELSE recv_buf.max_payload
        /\ recv_buf.recv_buf_size <= MAX_RECEIVE_BUFFER_SIZE
        /\ recv_buf.recv_buf_size <= recv_buf.max_payload
        /\ recv_buf.stage = "loop" =>
              /\ recv_buf.capacity = recv_buf.recv_buf_size
              /\ recv_buf.len <= recv_buf.recv_buf_size

\* the finalized request advertises less than the ceiling, and less than
\* before it was finalized, and a longer datagram was read into the buffer
C26_Witness ==
    /\ recv_buf.stage = "loop"
    /\ recv_buf.finalized
    /\ recv_buf.passed = 4096
    /\ recv_buf.max_payload = 1232
    /\ recv_buf.recv_buf_size = 1232
    /\ recv_buf.len = 1232

\* the sends that own a bound socket: in flight, past the bind
Bound == {f \in Slots : pc[f] \in {"send_to", "recv_from"}}

\* C27: the open sockets are exactly those of the sends in flight; the
\* socket of a send that completed, with a response, an error or a timeout,
\* or whose future was dropped while pending, is closed, and nothing is
\* received on it any more.
C27_SocketClosedWithSend ==
    /\ open = {socket[f] : f \in Bound}
    /\ \A f \in Slots \ Bound :
          /\ socket[f] \notin open
          /\ ~ENABLED RecvError(f)
          /\ pc[f] # "bind" => ~ENABLED Timeout(f)

\* a future was dropped in its receive loop after a datagram had been
\* filtered out, another send timed out after its bind, and no socket is open
C27_Witness ==
    \E f \in Slots, g \in Slots :
        /\ pc[f] = "dropped" /\ socket[f] # 0 /\ nread[f] = 1
        /\ pc[g] = "done" /\ socket[g] # 0 /\ outcome[g] = Error("timeout")
        /\ open = {}

\* every step the response future of slot f can take where it stands is
\* possible
CanProceed(f) ==
    /\ pc[f] = "bind" => ENABLED Bind(f, TRUE) /\ ENABLED Bind(f, FALSE)
    /\ pc[f] = "send_to" =>
          /\ ENABLED SendTo(f, -1)
          /\ ENABLED SendTo(f, Len(request[f]) - 1)
          /\ ENABLED SendTo(f, Len(request[f]))
    /\ pc[f] = "recv_from" =>
          /\ ENABLED RecvError(f)
          /\ nread[f] < MaxDgrams => \A d \in Dgrams : ENABLED RecvFrom(f, d, TRUE)
    /\ pc[f] \in InFlight => ENABLED Timeout(f)

\* C28: shutdown() changes nothing of a send started before it: not where
\* its future stands, not its request, id, verifier or socket, not what it
\* has read or resolved to; after shutdown a pending future can still take
\* every step it could take before (bind, send, receive and filter, fail,
\* time out), and its steps leave the stream shut down.
C28_ShutdownSparesSends ==
    /\ [](is_shutdown => \A f \in Slots : CanProceed(f))
    /\ [][/\ is_shutdown' # is_shutdown =>
               UNCHANGED <<signer, nsends, pc, msg_id, request, verifier, socket,
                           nsockets, open, nread, vcalls, outcome, delivered>>
          /\ \A f \in Slots :
                (is_shutdown /\ pc[f] \in InFlight /\ pc'[f] # pc[f]) =>
                    /\ is_shutdown'
                    /\ panicked' = panicked
                    /\ \/ \E ok \in BOOLEAN : Bind(f, ok)
                       \/ \E len_sent \in {-1, Len(request[f]) - 1, Len(request[f])} :
                             SendTo(f, len_sent)
                       \/ ReadStep(f)
                       \/ RecvError(f)
                       \/ Timeout(f)]_vars

\* the stream was shut down while one send had not bound its socket yet and
\* another was in its receive loop
C28_Witness ==
    /\ is_shutdown
    /\ \E f \in Slots, g \in Slots :
          /\ pc[f] = "bind"
          /\ pc[g] = "recv_from" /\ nread[g] = 1

\* C29: every poll of a connect future, a poll after the first included,
\* yields a stream with the same peer, timeout, bind address and signer.
C29_PollIdempotent ==
    \A i \in 1..Len(connect.polls), j \in 1..Len(connect.polls) :
        ConfigOf(connect.polls[i]) = ConfigOf(connect.polls[j])

====
